---- MODULE Spec2Model ----
(***************************************************************************)
(* Model of ocmstoolkit (OxfordCMS/OCMS_Toolkit): modules/Utility.py, the  *)
(* zstd and SRA pipelines, the countlines and rename_and_link scripts.     *)
(*                                                                         *)
(* MetaFastn(fastn1) is modelled as the sequence of steps its __init__     *)
(* runs: attribute initialisation, open-and-read-header, get_format(),     *)
(* check_for_mates(), get_suffix() and the prefix assignment.  An object   *)
(* is a record of its attributes; reading an attribute the object does     *)
(* not have raises AttributeError, as Python does.  Strings are TLA+       *)
(* strings, taken apart with Len, SubSeq and \o.                           *)
(*                                                                         *)
(* Line 194 of Utility.py ("if.os.path.exists(singleton_name):") is not    *)
(* valid Python.  The methods are modelled statement by statement, that    *)
(* line read as "if os.path.exists(singleton_name):"; it is never reached, *)
(* because line 188 raises first.                                          *)
(*                                                                         *)
(* get_fastns(datadir, *args) and MetaBam(infile) are modelled by their    *)
(* own variables (scan, bam) and checked under their own specifications    *)
(* (SpecFastns, SpecBam); each specification leaves the variables of the   *)
(* other operations idle.  So are relink(inf, outf) (variable link,        *)
(* SpecRelink), the pipeline tasks (variable task: SpecZstd for            *)
(* pipeline_zstd_compression.py, SpecSra for pipeline_sra.py) and the      *)
(* command line scripts (variable script: SpecCount for countlines.py,     *)
(* SpecRename for rename_and_link.py).                                     *)
(***************************************************************************)
EXTENDS Integers, Sequences, FiniteSets, TLC

VARIABLES arg, disk, self, pc, err, io, scan, bam, link, task, script

vars == <<arg, disk, self, pc, err, io, scan, bam, link, task, script>>

\* The state of the operations other than MetaFastn().
NotMetaFastn == <<scan, bam, link, task, script>>

\* ------------------------------------------------------------ bounds ----

\* Longest sample stem of an input file name.
MaxStemLen == 2

\* Lines read into self.head (range(5), line 132).
HeadLines == 5

\* ------------------------------------------------------- Python values ----

\* Python's None: a token no path, suffix or format is equal to.
None == "<None>"

\* str.endswith(t)
EndsWith(s, t) ==
    /\ Len(s) >= Len(t)
    /\ SubSeq(s, Len(s) - Len(t) + 1, Len(s)) = t

\* c in chars, for a one-character string c
CharIn(c, chars) == \E i \in 1..Len(chars) : SubSeq(chars, i, i) = c

\* str.rstrip(chars): drops trailing characters while they are in the SET of
\* characters of chars (not the suffix chars).
RECURSIVE Rstrip(_, _)
Rstrip(s, chars) ==
    IF Len(s) = 0 THEN s
    ELSE IF CharIn(SubSeq(s, Len(s), Len(s)), chars)
         THEN Rstrip(SubSeq(s, 1, Len(s) - 1), chars)
         ELSE s

\* os.path.basename(p): what follows the last "/".
RECURSIVE Basename(_)
Basename(p) ==
    IF \E i \in 1..Len(p) : SubSeq(p, i, i) = "/"
    THEN Basename(Tail(p))
    ELSE p

\* hasattr(obj, a)
HasAttr(obj, a) == a \in DOMAIN obj

\* ------------------------------------------------------------- inputs ----

StemChars == {"e", "t", ".", "1"}

RECURSIVE Stems(_)
Stems(n) ==
    IF n = 0 THEN {""}
    ELSE Stems(n - 1) \cup {s \o c : s \in Stems(n - 1), c \in StemChars}

\* What follows the stem: the four conforming suffixes, two without the dot
\* before the format, and three that are no read-1 name at all.
Tails == {".fastq.gz", ".fastq.1.gz", ".fasta.gz", ".fasta.1.gz",
          "fastq.gz", "fasta.1.gz",
          ".fastq.2.gz", ".fq.gz", ".fastq"}

Dirs == {"", "d/"}

Paths == {d \o s \o t : d \in Dirs, s \in Stems(MaxStemLen), t \in Tails}

\* The file of end k ("2": mate, "3": singletons) that belongs to read-1 path
\* p under the naming convention of the class docstring (lines 105-110).
Sibling(p, k) ==
    IF EndsWith(p, ".1.gz") THEN SubSeq(p, 1, Len(p) - 5) \o "." \o k \o ".gz"
    ELSE IF EndsWith(p, ".gz") THEN SubSeq(p, 1, Len(p) - 3) \o "." \o k \o ".gz"
    ELSE p \o "." \o k \o ".gz"

\* Decompressed contents of a file, as its lines (each ended by a newline):
\* an empty file, a file holding one empty line, fastq and fasta records, a
\* file starting with neither header character, a file longer than the header.
Contents == { <<>>, <<"">>, <<"@r", "A">>, <<">r", "A">>, <<"xr">>,
              <<"@r", "A", "+", "I", "@s", "C">> }

\* A file IOTools.open_file() opens but cannot decode (a .gz name over bytes
\* that are no gzip stream): the first readline() raises.
Corrupt == <<"<corrupt>">>

\* Every file system the model starts from: read 1 absent or with any of the
\* contents, the mate absent or present, the singleton file absent, empty or
\* not empty.
Disks(p) ==
    { [q \in (IF c1 = <<"absent">> THEN {} ELSE {p})
               \cup (IF m THEN {Sibling(p, "2")} ELSE {})
               \cup (IF c3 = <<"absent">> THEN {} ELSE {Sibling(p, "3")})
         |-> IF q = p THEN c1
             ELSE IF q = Sibling(p, "3") THEN c3
             ELSE <<"@r", "T">>] :
        c1 \in Contents \cup {Corrupt, <<"absent">>},
        m \in BOOLEAN,
        c3 \in {<<"absent">>, <<>>, <<"@u", "G">>} }

\* os.path.exists(p)
Exists(fs, p) == p \in DOMAIN fs

\* ------------------------------------------------- MetaFastn.__init__ ----

\* Lines 115-123: the attributes every MetaFastn object has.
NewObject(fastn1) ==
    [fastn1 |-> fastn1, fastn2 |-> None, fastn3 |-> None,
     fn1_suffix |-> None, fn2_suffix |-> None, fn3_suffix |-> None,
     prefix |-> None, file_format |-> None, head |-> <<>>]

\* Line 132: five readline() calls, each stripped of its newline; readline()
\* at the end of the file returns "".
ReadHead(lines) ==
    [i \in 1..HeadLines |-> IF i <= Len(lines) THEN lines[i] ELSE ""]

\* File handles: how many open_file() calls succeeded, how many of the
\* handles they returned are not closed yet.
NoIO == [opened |-> 0, open |-> 0]

\* get_fastns() and MetaBam() not called.
IdleScan == [pc |-> "idle"]
IdleBam == [pc |-> "idle"]
IdleLink == [pc |-> "idle"]
IdleTask == [pc |-> "idle"]
IdleScript == [pc |-> "idle"]

\* No relink() call, pipeline task or script is part of the run.
RestIdle == link = IdleLink /\ task = IdleTask /\ script = IdleScript

Init ==
    /\ arg \in Paths
    /\ disk \in Disks(arg)
    /\ self = NewObject(arg)
    /\ pc = "open"
    /\ err = "none"
    /\ io = NoIO
    /\ scan = IdleScan
    /\ bam = IdleBam
    /\ RestIdle

\* Lines 125-139 with the FileNotFoundError swallowed: the header of a file
\* that is not there is read as empty.
OpenFileMissingOk ==
    /\ pc = "open"
    /\ self' = [self EXCEPT !.head =
                   ReadHead(IF Exists(disk, self.fastn1)
                            THEN disk[self.fastn1] ELSE <<>>)]
    /\ pc' = "get_format"
    /\ io' = [opened |-> 1, open |-> 0]
    /\ UNCHANGED <<arg, disk, err, NotMetaFastn>>

\* Lines 125-139: open the file (127-131), read the header (132), close the
\* file (133-139).  Nothing closes the handle when readline() raises.
OpenFile ==
    /\ pc = "open"
    /\ IF ~Exists(disk, self.fastn1)
       THEN /\ pc' = "failed"
            /\ err' = "FileOpen"
            /\ UNCHANGED <<self, io>>
       ELSE IF disk[self.fastn1] = Corrupt
       THEN /\ pc' = "failed"
            /\ err' = "ReadError"
            /\ io' = [opened |-> io.opened + 1, open |-> io.open + 1]
            /\ UNCHANGED self
       ELSE /\ self' = [self EXCEPT !.head = ReadHead(disk[self.fastn1])]
            /\ pc' = "get_format"
            /\ io' = [opened |-> io.opened + 1, open |-> io.open]
            /\ UNCHANGED err
    /\ UNCHANGED <<arg, disk, NotMetaFastn>>

\* ------------------------------------------------ MetaFastn.get_format ----

DetectFormatDotted(fastn1) ==
    IF EndsWith(fastn1, ".fasta.1.gz") \/ EndsWith(fastn1, ".fasta.gz")
    THEN "fasta"
    ELSE IF EndsWith(fastn1, ".fastq.1.gz") \/ EndsWith(fastn1, ".fastq.gz")
         THEN "fastq"
         ELSE None

\* Lines 157-163: the first of ("fasta", "fastq") the name ends with, followed
\* by ".1.gz" or ".gz"; None when there is none.
DetectFormat(fastn1) ==
    IF EndsWith(fastn1, "fasta" \o ".1.gz") \/ EndsWith(fastn1, "fasta" \o ".gz")
    THEN "fasta"
    ELSE IF EndsWith(fastn1, "fastq" \o ".1.gz") \/ EndsWith(fastn1, "fastq" \o ".gz")
         THEN "fastq"
         ELSE None

\* get_format() with the header asserted before the format is.
GetFormatHeaderFirst(obj) ==
    LET fmt == DetectFormat(obj.fastn1)
        o1 == [obj EXCEPT !.file_format = fmt]
        first == obj.head[1]
    IN  IF Len(first) = 0
        THEN [obj |-> o1, err |-> "IndexError"]
        ELSE IF SubSeq(first, 1, 1) # (IF fmt = "fasta" THEN ">" ELSE "@")
        THEN [obj |-> o1, err |-> "HeaderMismatch"]
        ELSE IF fmt = None
        THEN [obj |-> obj, err |-> "UnknownFormat"]
        ELSE [obj |-> o1, err |-> "none"]

\* get_format(): the object and the exception it ends with ("none": returns).
GetFormatResult(obj) ==
    LET fmt == DetectFormat(obj.fastn1)
        o1 == [obj EXCEPT !.file_format = fmt]
        first == obj.head[1]
    IN  IF fmt = None
        THEN [obj |-> obj, err |-> "UnknownFormat"]            \* line 166
        ELSE IF Len(first) = 0
        THEN [obj |-> o1, err |-> "IndexError"]                \* head[0][0]
        ELSE IF fmt = "fasta" /\ SubSeq(first, 1, 1) # ">"
        THEN [obj |-> o1, err |-> "HeaderMismatch"]            \* line 169
        ELSE IF fmt # "fasta" /\ SubSeq(first, 1, 1) # "@"
        THEN [obj |-> o1, err |-> "HeaderMismatch"]            \* line 172
        ELSE [obj |-> o1, err |-> "none"]

GetFormat ==
    /\ pc = "get_format"
    /\ LET r == GetFormatResult(self)
       IN  /\ self' = r.obj
           /\ err' = r.err
           /\ pc' = IF r.err = "none" THEN "check_for_mates" ELSE "failed"
    /\ UNCHANGED <<arg, disk, io, NotMetaFastn>>

\* -------------------------------------------- MetaFastn.check_for_mates ----

\* check_for_mates() with the attribute spelled fastn1 and the singleton
\* recorded without asking for the mate first.
CheckForMatesNoAssert(obj, fs) ==
    IF EndsWith(obj.fastn1, ".1.gz")
    THEN LET pair_name == Rstrip(obj.fastn1, ".1.gz") \o ".2.gz"
             singleton_name == Rstrip(obj.fastn1, ".1.gz") \o ".3.gz"
             o1 == IF Exists(fs, pair_name)
                   THEN [obj EXCEPT !.fastn2 = pair_name] ELSE obj
         IN  IF Exists(fs, singleton_name) /\ Len(fs[singleton_name]) > 0
             THEN [obj |-> [o1 EXCEPT !.fastn3 = singleton_name], err |-> "none"]
             ELSE [obj |-> o1, err |-> "none"]
    ELSE [obj |-> obj, err |-> "none"]

\* check_for_mates(): the object and the exception it ends with.  Lines 188
\* and 193 read self.fastn, an attribute no MetaFastn object has.
CheckForMatesResult(obj, fs) ==
    IF EndsWith(obj.fastn1, ".1.gz")                                \* line 186
    THEN IF ~HasAttr(obj, "fastn")                                  \* line 188
         THEN [obj |-> obj, err |-> "AttributeError"]
         ELSE
         LET pair_name == Rstrip(obj["fastn"], ".1.gz") \o ".2.gz"
             singleton_name == Rstrip(obj["fastn"], ".1.gz") \o ".3.gz"
             o1 == IF Exists(fs, pair_name)                         \* line 189
                   THEN [obj EXCEPT !.fastn2 = pair_name] ELSE obj
         IN  IF ~Exists(fs, singleton_name)                         \* line 194
             THEN [obj |-> o1, err |-> "none"]
             ELSE IF o1.fastn2 = None                               \* line 195
             THEN [obj |-> o1, err |-> "SingletonWithoutMate"]
             ELSE IF Len(fs[singleton_name]) > 0                    \* line 197
             THEN [obj |-> [o1 EXCEPT !.fastn3 = singleton_name], err |-> "none"]
             ELSE [obj |-> o1, err |-> "none"]                      \* E.warn
    ELSE [obj |-> obj, err |-> "none"]

\* Line 197 is reached: open_file(singleton_name).read(1) opens the singleton
\* file, and nothing closes the handle.
SingletonOpened(obj, fs) ==
    /\ EndsWith(obj.fastn1, ".1.gz")
    /\ HasAttr(obj, "fastn")
    /\ Exists(fs, Rstrip(obj["fastn"], ".1.gz") \o ".3.gz")
    /\ Exists(fs, Rstrip(obj["fastn"], ".1.gz") \o ".2.gz")

CheckForMates ==
    /\ pc = "check_for_mates"
    /\ LET r == CheckForMatesResult(self, disk)
       IN  /\ self' = r.obj
           /\ err' = r.err
           /\ pc' = IF r.err = "none" THEN "get_suffix" ELSE "failed"
    /\ io' = IF SingletonOpened(self, disk)
             THEN [opened |-> io.opened + 1, open |-> io.open + 1]
             ELSE io
    /\ UNCHANGED <<arg, disk, NotMetaFastn>>

\* ------------------------------------------------ MetaFastn.get_suffix ----

\* get_suffix(): the object and the exception it ends with.  Line 218 reads
\* self.fastn1_suffix, an attribute no MetaFastn object has.
GetSuffixResult(obj) ==
    LET ff == obj.file_format
        paired == EndsWith(obj.fastn1, ff \o ".1.gz")               \* line 207
        o1 == IF paired
              THEN [obj EXCEPT
                      !.fn1_suffix = "." \o ff \o ".1.gz",
                      !.fn2_suffix = IF obj.fastn2 # None
                                     THEN "." \o ff \o ".2.gz" ELSE @,
                      !.fn3_suffix = IF obj.fastn3 # None
                                     THEN "." \o ff \o ".3.gz" ELSE @]
              ELSE [obj EXCEPT !.fn1_suffix = "." \o ff \o ".gz"]   \* line 216
    IN  IF ~paired /\ ~EndsWith(obj.fastn1, "." \o ff \o ".gz")     \* line 215
        THEN [obj |-> obj, err |-> "SuffixMismatch"]
        ELSE IF ~HasAttr(o1, "fastn1_suffix")                       \* line 218
        THEN [obj |-> o1, err |-> "AttributeError"]
        ELSE [obj |-> [o1 EXCEPT !.prefix =
                          Rstrip(Basename(o1.fastn1), o1["fastn1_suffix"])],
              err |-> "none"]

\* Lines 149-152, after get_suffix() returned.  self.prefixstrip is an
\* attribute no MetaFastn object has.
SetPrefixResult(obj) ==
    IF ~HasAttr(obj, "prefixstrip")                                 \* line 149
    THEN [obj |-> obj, err |-> "AttributeError"]
    ELSE IF obj["prefixstrip"] = None
    THEN [obj |-> [obj EXCEPT !.prefix =
                      Basename(Rstrip(obj.fastn1, obj.fn1_suffix))],
          err |-> "none"]
    ELSE [obj |-> [obj EXCEPT !.prefix =
                      Basename(Rstrip(obj.fastn1, obj["prefixstrip"]))],
          err |-> "none"]

\* Lines 147-152: get_suffix(), then the prefix; the constructor returns.
SuffixAndPrefix ==
    /\ pc = "get_suffix"
    /\ LET r == GetSuffixResult(self)
           q == IF r.err = "none" THEN SetPrefixResult(r.obj) ELSE r
       IN  /\ self' = q.obj
           /\ err' = q.err
           /\ pc' = IF q.err = "none" THEN "done" ELSE "failed"
    /\ UNCHANGED <<arg, disk, io, NotMetaFastn>>

Next == OpenFile \/ GetFormat \/ CheckForMates \/ SuffixAndPrefix

Spec == Init /\ [][Next]_vars

\* --------------------------------------------------------- get_fastns ----

\* Most entries of a scanned directory.
MaxEntries == 3

\* Names a directory may hold: single-end, paired and singleton read files,
\* a file that is no read file, a checksum beside a read file, a name with a
\* blank in it, and a name with a comma where the format letter belongs.
Entries == {"a.fastq.gz", "b.fasta.gz", "a.fastq.1.gz", "a.fastq.2.gz",
            "a.fastq.3.gz", "b.fastq.1.gz", "pipeline.yml", "a.fastq.gz.md5",
            "x y.fastq.gz", "a.fast,.gz"}

\* os.listdir(datadir): the entries in any order, none twice.
RECURSIVE Listings(_)
Listings(n) ==
    IF n = 0 THEN {<<>>}
    ELSE LET shorter == Listings(n - 1)
         IN  shorter \cup
             UNION {{Append(l, x) : x \in Entries \ {l[k] : k \in 1..Len(l)}} :
                      l \in {k \in shorter : Len(k) = n - 1}}

\* The *args of a call: none, the four documented requests in several orders
\* and with repeats, and requests that are not documented.
ArgLists == {<<>>, <<0>>, <<1>>, <<1, 2>>, <<2, 1, 1>>, <<1, 2, 3>>, <<3, 2, 1>>,
             <<2>>, <<1, 3>>, <<0, 1>>, <<4>>}

Datadirs == {"d"}

\* os.path.join(datadir, x) for a directory entry x (no "/" in it).
Join(d, x) ==
    IF d = "" THEN x
    ELSE IF EndsWith(d, "/") THEN d \o x
    ELSE d \o "/" \o x

\* Line 22 and line 25: the default request, then set(args).
ArgsSet(args) ==
    LET a == IF Len(args) = 0 THEN <<1>> ELSE args
    IN  {a[k] : k \in 1..Len(a)}

ValidSetsNoZero == {{1}, {1, 2}, {1, 2, 3}}

\* Line 28.
ValidSets == {{0}, {1}, {1, 2}, {1, 2, 3}}

\* \S of the pattern: not a blank character.
NonSpace(c) == c \notin {" ", "\t", "\n"}

\* re.search(r"(\S+)(\.fast[a,q])(.*gz)", n), lines 36-38.  The format group
\* may start at i when ".fast" and one of the characters a , q stand there, a
\* non-blank character stands before it and "gz" follows somewhere after it
\* on the same line.  The match starts at the leftmost possible place, (\S+)
\* then takes the longest run it can and (.*gz) reaches the last "gz".
GzEnds(n, i) ==
    {e \in (i + 7)..Len(n) :
        /\ SubSeq(n, e - 1, e) = "gz"
        /\ \A k \in (i + 6)..(e - 2) : SubSeq(n, k, k) # "\n"}

FormatStarts(n) ==
    {i \in 2..Len(n) :
        /\ i + 5 <= Len(n)
        /\ SubSeq(n, i, i + 4) = ".fast"
        /\ SubSeq(n, i + 5, i + 5) \in {"a", ",", "q"}
        /\ NonSpace(SubSeq(n, i - 1, i - 1))
        /\ GzEnds(n, i) # {}}

RunStart(n, i) ==
    CHOOSE s \in 1..(i - 1) :
        /\ \A k \in s..(i - 1) : NonSpace(SubSeq(n, k, k))
        /\ s = 1 \/ ~NonSpace(SubSeq(n, s - 1, s - 1))

NoMatch == [matched |-> FALSE]

ReSearch(n) ==
    IF FormatStarts(n) = {} THEN NoMatch
    ELSE
    LET s == CHOOSE x \in {RunStart(n, i) : i \in FormatStarts(n)} :
                \A i \in FormatStarts(n) : x <= RunStart(n, i)
        i == CHOOSE x \in FormatStarts(n) :
                /\ RunStart(n, x) = s
                /\ \A y \in FormatStarts(n) : RunStart(n, y) = s => y <= x
        e == CHOOSE x \in GzEnds(n, i) : \A y \in GzEnds(n, i) : y <= x
    IN  [matched |-> TRUE,
         group0 |-> SubSeq(n, s, e),
         prefix |-> SubSeq(n, s, i - 1),
         format |-> SubSeq(n, i, i + 5),
         suffix |-> SubSeq(n, i + 6, e)]

\* Line 38: the search object of every entry a directory may hold.
FastnSearch == [n \in Entries |-> ReSearch(n)]

\* Lines 47-67: the matched text of the entries whose third group is sfx, in
\* listing order, each joined with datadir.
Bucket(datadir, listing, sfx) ==
    LET hits == SelectSeq(listing, LAMBDA x : FastnSearch[x].suffix = sfx)
    IN  [k \in 1..Len(hits) |-> Join(datadir, FastnSearch[hits[k]].group0)]

\* Lines 69-76 with single-end files handed out as read 1.
ReturnForSingleAsOne(argset, f0, f1, f2, f3) ==
    IF argset = {0} THEN [result |-> f0, err |-> "none"]
    ELSE IF argset = {1} THEN [result |-> f0 \o f1, err |-> "none"]
    ELSE IF argset = {1, 2} THEN [result |-> <<f1, f2>>, err |-> "none"]
    ELSE [result |-> <<f1, f2, f3>>, err |-> "none"]

\* Lines 69-76 behind a check that read 1 and read 2 are as many.
ReturnForStrict(argset, f0, f1, f2, f3) ==
    IF argset = {0} THEN [result |-> f0, err |-> "none"]
    ELSE IF argset = {1} THEN [result |-> f1, err |-> "none"]
    ELSE IF Len(f1) # Len(f2) THEN [result |-> <<>>, err |-> "UnpairedFiles"]
    ELSE IF argset = {1, 2} THEN [result |-> <<f1, f2>>, err |-> "none"]
    ELSE [result |-> <<f1, f2, f3>>, err |-> "none"]

\* Lines 69-76: what is returned for the request.
ReturnFor(argset, f0, f1, f2, f3) ==
    IF argset = {0} THEN [result |-> f0, err |-> "none"]
    ELSE IF argset = {1} THEN [result |-> f1, err |-> "none"]
    ELSE IF argset = {1, 2} THEN [result |-> <<f1, f2>>, err |-> "none"]
    ELSE IF argset = {1, 2, 3} THEN [result |-> <<f1, f2, f3>>, err |-> "none"]
    ELSE [result |-> None, err |-> "none"]

\* Lines 35-76, the request being valid: the listing is searched, an empty
\* listing fails the assert of line 40, an entry the pattern does not match
\* (None in fastn_search) raises at i.groups() in line 52.
ScanResult(datadir, argset, listing) ==
    IF Len(listing) = 0
    THEN [result |-> <<>>, err |-> "NoInputFiles"]
    ELSE IF \E k \in 1..Len(listing) : ~FastnSearch[listing[k]].matched
    THEN [result |-> <<>>, err |-> "AttributeError"]
    ELSE ReturnFor(argset,
                   Bucket(datadir, listing, ".gz"),
                   Bucket(datadir, listing, ".1.gz"),
                   Bucket(datadir, listing, ".2.gz"),
                   Bucket(datadir, listing, ".3.gz"))

\* MetaFastn() not called.
IdleMetaFastn ==
    /\ arg = ""
    /\ disk = <<>>
    /\ self = NewObject("")
    /\ pc = "idle"
    /\ err = "none"
    /\ io = NoIO

InitFastns ==
    /\ IdleMetaFastn
    /\ bam = IdleBam
    /\ RestIdle
    /\ \E d \in Datadirs, a \in ArgLists, l \in Listings(MaxEntries) :
          scan = [pc |-> "call", datadir |-> d, args |-> a, dir |-> l,
                  listed |-> FALSE, result |-> <<>>, err |-> "none"]

\* Lines 21-33: the request is checked before anything is read.
ValidateArgs ==
    /\ scan.pc = "call"
    /\ scan' = IF ArgsSet(scan.args) \in ValidSets
               THEN [scan EXCEPT !.pc = "scan"]
               ELSE [scan EXCEPT !.pc = "failed", !.err = "InvalidEndSpec"]
    /\ UNCHANGED <<arg, disk, self, pc, err, io, bam, link, task, script>>

\* Lines 35-76: list the directory, sort the entries into ends, return.
ScanDir ==
    /\ scan.pc = "scan"
    /\ LET r == ScanResult(scan.datadir, ArgsSet(scan.args), scan.dir)
       IN  scan' = [scan EXCEPT !.listed = TRUE,
                                !.result = r.result,
                                !.err = r.err,
                                !.pc = IF r.err = "none" THEN "done" ELSE "failed"]
    /\ UNCHANGED <<arg, disk, self, pc, err, io, bam, link, task, script>>

NextFastns == ValidateArgs \/ ScanDir

SpecFastns == InitFastns /\ [][NextFastns]_vars

\* ------------------------------------------------------------ MetaBam ----

\* Paths handed to MetaBam(): a directory part, a stem (some holding the
\* words bam, sam and cram themselves) and what follows the stem.
BamDirs == {"", "d/", "bam.d/"}
BamStems == {"x", "bam", "sam", "cram", "x.bam", "scram", "t.sam.x"}
BamExts == {".bam", ".sam", ".cram", ".vcf", "bam", ".bam.gz", ".BAM", ""}

\* str.replace(word, repl): every occurrence, wherever it stands.
RECURSIVE ReplaceAll(_, _, _)
ReplaceAll(word, repl, s) ==
    IF Len(s) < Len(word) THEN s
    ELSE IF SubSeq(s, 1, Len(word)) = word
         THEN repl \o ReplaceAll(word, repl, SubSeq(s, Len(word) + 1, Len(s)))
         ELSE SubSeq(s, 1, 1) \o ReplaceAll(word, repl, Tail(s))

\* The word replaced wherever it stands, not only where it ends s.
ReSubAnywhere(word, repl, s) == ReplaceAll(word, repl, s)

\* re.sub(word + "$", repl, s) for a path s (no newline in it): word is
\* replaced where it ends s, and nowhere else.
ReSubEnd(word, repl, s) ==
    IF EndsWith(s, word)
    THEN SubSeq(s, 1, Len(s) - Len(word)) \o repl
    ELSE s

SupportedNoDot(infile) ==
    EndsWith(infile, "bam") \/ EndsWith(infile, "sam") \/ EndsWith(infile, "cram")

\* Line 241: infile.endswith(('.bam', '.sam', '.cram')).
Supported(infile) ==
    EndsWith(infile, ".bam") \/ EndsWith(infile, ".sam") \/ EndsWith(infile, ".cram")

\* Lines 227-242: the attributes set by the branch taken, then the assert.
MetaBamResult(infile) ==
    LET unset == [bamfile |-> None, samfile |-> None, cramfile |-> None]
        obj == IF EndsWith(infile, ".bam")                          \* line 228
               THEN [bamfile |-> infile,
                     samfile |-> ReSubEnd("bam", "sam", infile),
                     cramfile |-> ReSubEnd("bam", "cram", infile)]
               ELSE IF EndsWith(infile, ".sam")                     \* line 232
               THEN [samfile |-> infile,
                     bamfile |-> ReSubEnd("sam", "bam", infile),
                     cramfile |-> ReSubEnd("sam", "cram", infile)]
               ELSE IF EndsWith(infile, ".cram")                    \* line 236
               THEN [cramfile |-> infile,
                     bamfile |-> ReSubEnd("cram", "bam", infile),
                     samfile |-> ReSubEnd("cram", "sam", infile)]
               ELSE unset
    IN  IF Supported(infile)                                        \* line 241
        THEN [obj |-> obj, err |-> "none"]
        ELSE [obj |-> unset, err |-> "Unsupported"]

InitBam ==
    /\ IdleMetaFastn
    /\ scan = IdleScan
    /\ RestIdle
    /\ \E d \in BamDirs, st \in BamStems, x \in BamExts :
          bam = [pc |-> "call", stem |-> d \o st, ext |-> x,
                 infile |-> d \o st \o x,
                 bamfile |-> None, samfile |-> None, cramfile |-> None,
                 err |-> "none"]

\* MetaBam(infile): the constructor returns an object or raises.
MetaBamInit ==
    /\ bam.pc = "call"
    /\ LET r == MetaBamResult(bam.infile)
       IN  bam' = [bam EXCEPT !.bamfile = r.obj.bamfile,
                              !.samfile = r.obj.samfile,
                              !.cramfile = r.obj.cramfile,
                              !.err = r.err,
                              !.pc = IF r.err = "none" THEN "done" ELSE "failed"]
    /\ UNCHANGED <<arg, disk, self, pc, err, io, scan, link, task, script>>

NextBam == MetaBamInit

SpecBam == InitBam /\ [][NextBam]_vars

\* ------------------------------------------------------------- relink ----

\* Calls of relink() made on the same outf, one after the other.
MaxCalls == 3

\* Working directories and source paths, relative and absolute.  None holds
\* a ".", a ".." or a doubled slash, so os.path.normpath leaves them alone.
Cwds == {"/w", "/tmp/t"}
Infs == {"source.txt", "in/source.txt", "/tmp/t/source.txt"}

\* os.path.abspath(inf): the working directory is put before a relative path.
Abspath(cwd, inf) ==
    IF SubSeq(inf, 1, 1) = "/" THEN inf ELSE cwd \o "/" \o inf

\* What stands at outf: nothing, a regular file, a directory or a link.
Absent == [kind |-> "absent", target |-> None]
LinkTo(t) == [kind |-> "link", target |-> t]
Nodes == {Absent, [kind |-> "file", target |-> None],
          [kind |-> "dir", target |-> None], LinkTo("/old/source.txt")}

\* The directory of outf: there and writable, there and read-only, or not there.
Parents == {"ok", "readonly", "missing"}

\* os.symlink(target, outf): the errno it raises, or the link it makes.
Symlink(target, node, parent) ==
    IF parent = "missing" THEN [node |-> node, errno |-> "ENOENT"]
    ELSE IF node.kind # "absent" THEN [node |-> node, errno |-> "EEXIST"]
    ELSE IF parent = "readonly" THEN [node |-> node, errno |-> "EACCES"]
    ELSE [node |-> LinkTo(target), errno |-> "none"]

\* os.remove(outf).
Remove(node, parent) ==
    IF node.kind = "dir" THEN [node |-> node, errno |-> "EISDIR"]
    ELSE IF parent = "readonly" THEN [node |-> node, errno |-> "EACCES"]
    ELSE [node |-> Absent, errno |-> "none"]

\* Lines 78-84.  raised is the errno that leaves relink(), "none" when it
\* returns.
RelinkResult(cwd, inf, node, parent) ==
    LET first == Symlink(Abspath(cwd, inf), node, parent)           \* line 80
    IN  IF first.errno = "none"
        THEN [node |-> first.node, raised |-> "none"]
        ELSE IF first.errno = "EEXIST"                              \* line 82
        THEN LET gone == Remove(node, parent)                       \* line 83
             IN  IF gone.errno # "none"
                 THEN [node |-> gone.node, raised |-> gone.errno]
                 ELSE LET second == Symlink(inf, gone.node, parent) \* line 84
                      IN  [node |-> second.node, raised |-> second.errno]
        ELSE [node |-> node, raised |-> "none"]         \* other OSError: dropped

InitRelink ==
    /\ IdleMetaFastn
    /\ scan = IdleScan
    /\ bam = IdleBam
    /\ task = IdleTask
    /\ script = IdleScript
    /\ \E c \in Cwds, n \in Nodes, p \in Parents :
          /\ p = "missing" => n = Absent
          /\ link = [pc |-> "ready", cwd |-> c, node |-> n, before |-> n,
                     parent |-> p, inf |-> None, calls |-> 0, raised |-> "none"]

\* One call relink(inf, outf).
Relink ==
    /\ link.pc \in {"ready", "returned", "raised"}
    /\ link.calls < MaxCalls
    /\ \E inf \in Infs :
          LET r == RelinkResult(link.cwd, inf, link.node, link.parent)
          IN  link' = [link EXCEPT !.inf = inf,
                                   !.before = link.node,
                                   !.node = r.node,
                                   !.raised = r.raised,
                                   !.calls = link.calls + 1,
                                   !.pc = IF r.raised = "none" THEN "returned"
                                          ELSE "raised"]
    /\ UNCHANGED <<arg, disk, self, pc, err, io, scan, bam, task, script>>

NextRelink == Relink

SpecRelink == InitRelink /\ [][NextRelink]_vars

\* ------------------------------------------ pipeline_zstd_compression ----

\* Most input files (input.dir/*.gz) of a pipeline run.
MaxSamples == 3

\* Sample names, in the order the run takes them.
SampleNames == <<"a", "b", "s1", "t">>

\* zstd_compression_lvl and zstd_job_threads of pipeline.yml.
Levels == (0 - 2)..25
Threads == {1, 8}

\* What "zstd ... | md5sum -c <file> > <outfile> 2>/dev/null" leaves in the
\* check file (lines 187-197): the checksum agrees, disagrees, or md5sum
\* printed nothing on stdout (no checksum file, unreadable input).
CheckOutputs == {"-: OK\n", "-: FAILED\n", ""}

\* sub in s, for Python strings.
RECURSIVE Contains(_, _)
Contains(s, sub) ==
    IF Len(s) < Len(sub) THEN FALSE
    ELSE SubSeq(s, 1, Len(sub)) = sub \/ Contains(Tail(s), sub)

\* '\n'.join(list).
RECURSIVE JoinLines(_)
JoinLines(l) ==
    IF Len(l) = 0 THEN ""
    ELSE IF Len(l) = 1 THEN l[1]
    ELSE l[1] \o "\n" \o JoinLines(Tail(l))

\* The file names the transforms give (lines 67-68, 120, 173).
InputFile(id) == "input.dir/" \o id \o ".gz"
CompressedFile(id) == "02_compressed.dir/" \o id \o ".zst"
CheckFile(id) == "03_check_md5sum.dir/" \o id \o ".md5sum.out"

\* Line 229: the sample id is what stands between the directory and
\* ".md5sum.out".
SampleId(infile) == SubSeq(infile, 21, Len(infile) - 11)

\* Lines 127-163: the statement handed to P.run, or the exception raised
\* before P.run is called.  In the else branch the assert passes for level 0
\* and for levels above 22, and line 161 then reads the local variable
\* statement, which no branch has bound.
ZstdCompressResult(lvl, threads, infile, outfile) ==
    LET stmt(ultra) == [infile |-> infile, level |-> lvl, ultra |-> ultra,
                        threads |-> threads, outfile |-> outfile]
    IN  IF lvl >= 20 /\ lvl <= 22                                   \* line 131
        THEN [statement |-> <<stmt(TRUE)>>, err |-> "none"]
        ELSE IF lvl > 0 /\ lvl <= 19                                \* line 143
        THEN [statement |-> <<stmt(FALSE)>>, err |-> "none"]
        ELSE IF ~(lvl = 0 \/ lvl > 22)                              \* line 157
        THEN [statement |-> <<>>, err |-> "InvalidCompressionLvl"]
        ELSE [statement |-> <<>>, err |-> "UnboundLocalError"]      \* line 161

\* Lines 216-260: the two list files written; None for the file of failed
\* samples when it is not written.
RECURSIVE Classify(_, _, _, _)
Classify(infiles, checks, success, fail) ==
    IF Len(infiles) = 0 THEN [success |-> success, fail |-> fail]
    ELSE LET sample_id == SampleId(infiles[1])                      \* line 229
             md5sum_check == checks[infiles[1]]                     \* line 234
         IN  IF Contains(md5sum_check, "OK")                        \* line 236
             THEN Classify(Tail(infiles), checks,
                           Append(success, sample_id), fail)
             ELSE IF Contains(md5sum_check, "FAILED")               \* line 240
             THEN Classify(Tail(infiles), checks,
                           success, Append(fail, sample_id))
             ELSE Classify(Tail(infiles), checks, success, fail)

ListMd5ChecksResult(infiles, checks) ==
    LET c == Classify(infiles, checks, <<>>, <<>>)
    IN  [successfull |-> JoinLines(c.success),                      \* line 247
         failed |-> IF Len(c.fail) > 0                              \* line 252
                    THEN JoinLines(c.fail) ELSE None]

InitZstd ==
    /\ IdleMetaFastn
    /\ scan = IdleScan
    /\ bam = IdleBam
    /\ link = IdleLink
    /\ script = IdleScript
    /\ \E n \in 1..MaxSamples, lvl \in Levels, th \in Threads :
          task = [pc |-> "zstd_compress", samples |-> SubSeq(SampleNames, 1, n),
                  lvl |-> lvl, threads |-> th, jobs |-> <<>>,
                  checks |-> <<>>, successfull |-> None, failed |-> None,
                  err |-> "none"]

\* zstd_compress(infile, outfile) for the next input file.
ZstdCompress ==
    /\ task.pc = "zstd_compress"
    /\ LET id == task.samples[Len(task.jobs) + 1]
           r == ZstdCompressResult(task.lvl, task.threads,
                                   InputFile(id), CompressedFile(id))
       IN  task' = [task EXCEPT
                      !.jobs = @ \o r.statement,
                      !.err = r.err,
                      !.pc = IF r.err # "none" THEN "failed"
                             ELSE IF Len(task.jobs) + 1 = Len(task.samples)
                             THEN "check_md5sum" ELSE @]
    /\ UNCHANGED <<arg, disk, self, pc, err, io, scan, bam, link, script>>

\* check_md5sum(infile, outfile) for the next compressed file: the check
\* file holds what md5sum printed.
CheckMd5sum ==
    /\ task.pc = "check_md5sum"
    /\ \E out \in CheckOutputs :
          task' = [task EXCEPT
                     !.checks = Append(@, out),
                     !.pc = IF Len(task.checks) + 1 = Len(task.samples)
                            THEN "list_md5_checks" ELSE @]
    /\ UNCHANGED <<arg, disk, self, pc, err, io, scan, bam, link, script>>

\* list_md5_checks(infiles, outfile) over all check files.
ListMd5Checks ==
    /\ task.pc = "list_md5_checks"
    /\ LET infiles == [k \in 1..Len(task.samples) |-> CheckFile(task.samples[k])]
           checks == [f \in {infiles[k] : k \in 1..Len(infiles)} |->
                        task.checks[CHOOSE k \in 1..Len(infiles) : infiles[k] = f]]
           r == ListMd5ChecksResult(infiles, checks)
       IN  task' = [task EXCEPT !.successfull = r.successfull,
                                !.failed = r.failed,
                                !.pc = "done"]
    /\ UNCHANGED <<arg, disk, self, pc, err, io, scan, bam, link, script>>

NextZstd == ZstdCompress \/ CheckMd5sum \/ ListMd5Checks

SpecZstd == InitZstd /\ [][NextZstd]_vars

\* ------------------------------------------------------- pipeline_sra ----

\* Most downloads of a pipeline run.
MaxDownloads == 3

\* Downloaded files, in the order glob.glob gives their sentinels.
DownloadNames == <<"a.fastq.gz", "b.fastq.gz", "c_1.fastq.gz", "d.fastq.gz">>

\* The sentinel "md5sum -c <md5> > <sentinel>" leaves for a download (line
\* 162): one line with the verdict, or nothing when md5sum printed nothing.
SentinelOf(name, verdict) ==
    IF verdict = "" THEN <<>> ELSE <<name \o ": " \o verdict \o "\n">>
Verdicts == {"OK", "FAILED", ""}

\* checksums.dir/report.txt as earlier runs left it (it is opened for append).
OldReports == {<<>>, <<"old.fastq.gz: OK\n">>, <<"old.fastq.gz: FAILED\n">>}

\* Lines 147-152: the first line of every sentinel, appended to the report.
RECURSIVE MergeSentinelsResult(_, _)
MergeSentinelsResult(report, sentinels) ==
    IF Len(sentinels) = 0 THEN report
    ELSE LET entry == IF Len(sentinels[1]) = 0 THEN <<>>            \* line 151
                      ELSE <<sentinels[1][1]>>
         IN  MergeSentinelsResult(report \o entry, Tail(sentinels)) \* line 152

\* grep -v OK <report>: the lines without OK.
GrepV(report) == SelectSeq(report, LAMBDA l : ~Contains(l, "OK"))

\* Lines 192-194: the outfile is opened for writing and nothing is written to
\* it; grep runs without a stdout argument, so that its output goes to the
\* standard output of the pipeline.
ReportCheckSumsResult(report) ==
    [failed_check_sums |-> <<>>, stdout |-> GrepV(report)]

\* The characters of a string, one list element each (list.extend(str)).
Chars(str) == [i \in 1..Len(str) |-> SubSeq(str, i, i)]

\* line.split(" ")[0].
RECURSIVE FirstField(_)
FirstField(line) ==
    IF Len(line) = 0 \/ SubSeq(line, 1, 1) = " " THEN ""
    ELSE SubSeq(line, 1, 1) \o FirstField(Tail(line))

\* Lines 176-183: what update_readme_md5 appends to README.md.
RECURSIVE ReadmeEntry(_, _)
ReadmeEntry(failed, readme_entry) ==
    IF Len(failed) = 0 THEN readme_entry
    ELSE ReadmeEntry(Tail(failed),
                     readme_entry \o Chars(FirstField(failed[1]) \o "\n"))

UpdateReadmeMd5Result(failed) ==
    IF Len(failed) > 0                                              \* line 176
    THEN JoinLines(ReadmeEntry(failed, <<"failed check sums:\n">>))
    ELSE "all downloads passed md5 check sums"                      \* line 183

InitSra ==
    /\ IdleMetaFastn
    /\ scan = IdleScan
    /\ bam = IdleBam
    /\ link = IdleLink
    /\ script = IdleScript
    /\ \E n \in 1..MaxDownloads, old \in OldReports :
       \E v \in [1..n -> Verdicts] :
          task = [pc |-> "merge_sentinels",
                  sentinels |-> [k \in 1..n |-> SentinelOf(DownloadNames[k], v[k])],
                  report |-> old, failed_check_sums |-> None,
                  stdout |-> <<>>, readme |-> None]

\* merge_sentinels(), run after verifyMD5.
MergeSentinels ==
    /\ task.pc = "merge_sentinels"
    /\ task' = [task EXCEPT
                  !.report = MergeSentinelsResult(task.report, task.sentinels),
                  !.pc = "reportCheckSums"]
    /\ UNCHANGED <<arg, disk, self, pc, err, io, scan, bam, link, script>>

\* reportCheckSums(report, outfile).
ReportCheckSums ==
    /\ task.pc = "reportCheckSums"
    /\ LET r == ReportCheckSumsResult(task.report)
       IN  task' = [task EXCEPT !.failed_check_sums = r.failed_check_sums,
                                !.stdout = r.stdout,
                                !.pc = "update_readme_md5"]
    /\ UNCHANGED <<arg, disk, self, pc, err, io, scan, bam, link, script>>

\* update_readme_md5(), run after reportCheckSums.
UpdateReadmeMd5 ==
    /\ task.pc = "update_readme_md5"
    /\ task' = [task EXCEPT
                  !.readme = UpdateReadmeMd5Result(task.failed_check_sums),
                  !.pc = "done"]
    /\ UNCHANGED <<arg, disk, self, pc, err, io, scan, bam, link, script>>

NextSra == MergeSentinels \/ ReportCheckSums \/ UpdateReadmeMd5

SpecSra == InitSra /\ [][NextSra]_vars

\* ------------------------------------------------- scripts/countlines ----

\* Most lines of a counted file.
MaxLines == 20

\* --type (line 66).
CountTypes == {"lines", "fastq", "fasta"}

\* str(n) and int(s) for a number that is not negative.
Digit(d) == SubSeq("0123456789", d + 1, d + 1)
RECURSIVE IntToStr(_)
IntToStr(n) == IF n < 10 THEN Digit(n) ELSE IntToStr(n \div 10) \o Digit(n % 10)
RECURSIVE StrToInt(_)
StrToInt(str) ==
    LET last == CHOOSE d \in 0..9 : Digit(d) = SubSeq(str, Len(str), Len(str))
    IN  IF Len(str) = 1 THEN last
        ELSE 10 * StrToInt(SubSeq(str, 1, Len(str) - 1)) + last

\* Lines 82-88: "wc -l" counts the newline characters of the input, so that
\* a last line without one is not counted; its output, stripped, is a string.
WcLines(lines, terminated) ==
    IntToStr(IF lines > 0 /\ ~terminated THEN lines - 1 ELSE lines)

\* Lines 94-106: what is written to stdout, or the exception raised.  At
\* line 95 nlines is a str, and str % int is string formatting: with no
\* conversion specifier in the string it raises TypeError.
WriteCountResult(type, nlines) ==
    IF type = "lines"                                               \* line 94
    THEN [out |-> None, err |-> "TypeError"]                        \* line 95
    ELSE LET count == IF type = "fasta"                             \* line 99
                      THEN StrToInt(nlines) \div 2
                      ELSE IF type = "fastq"                        \* line 101
                      THEN StrToInt(nlines) \div 4
                      ELSE StrToInt(nlines)
         IN  [out |-> IntToStr(count) \o "\n", err |-> "none"]      \* line 105

InitCount ==
    /\ IdleMetaFastn
    /\ scan = IdleScan
    /\ bam = IdleBam
    /\ link = IdleLink
    /\ task = IdleTask
    /\ \E t \in CountTypes, n \in 0..MaxLines, nl \in BOOLEAN :
          /\ n = 0 => nl
          /\ script = [pc |-> "wc", type |-> t, lines |-> n, terminated |-> nl,
                       nlines |-> None, out |-> None, err |-> "none"]

\* Lines 76-91: the input is streamed through wc -l.
RunWc ==
    /\ script.pc = "wc"
    /\ script' = [script EXCEPT
                    !.nlines = WcLines(script.lines, script.terminated),
                    !.pc = "write"]
    /\ UNCHANGED <<arg, disk, self, pc, err, io, scan, bam, link, task>>

\* Lines 93-106: the check, the division and the output.
WriteCount ==
    /\ script.pc = "write"
    /\ LET r == WriteCountResult(script.type, script.nlines)
       IN  script' = [script EXCEPT !.out = r.out, !.err = r.err,
                                    !.pc = IF r.err = "none" THEN "done"
                                           ELSE "failed"]
    /\ UNCHANGED <<arg, disk, self, pc, err, io, scan, bam, link, task>>

NextCount == RunWc \/ WriteCount

SpecCount == InitCount /\ [][NextCount]_vars

\* -------------------------------------------- scripts/rename_and_link ----

\* The run directory and the arguments --indir, --outdir, --src_suffix.
Rundir == "/w"
Indir == "raw"
Outdir == "renamed"
SrcSuffix == "_1.fastq.gz"

\* --targ_suffix: not given, or given.
TargetSuffixes == {None, ".fastq.1.gz"}

\* Mapping files, as the <barcode, sample id> pairs of their lines.
PairLists == {<<<<"bc1", "id1">>>>,
              <<<<"bc1", "id1">>, <<"bc2", "id2">>>>,
              <<<<"bc1", "id1">>, <<"bc2", "id1">>>>,
              <<<<"bc1", "id1">>, <<"bc2", "id2">>, <<"bc3", "s3">>>>}

\* Input directories: the read files the glob of line 94 finds, sorted.
FileLists == {<<>>, <<"bc1_1.fastq.gz">>, <<"bc2_1.fastq.gz">>,
              <<"bc1_1.fastq.gz", "bc2_1.fastq.gz">>,
              <<"bc2_1.fastq.gz", "bc3_1.fastq.gz">>,
              <<"bc1_1.fastq.gz", "bc2_1.fastq.gz", "bc3_1.fastq.gz">>,
              <<"bc4_1.fastq.gz">>}

\* What the output directory holds before the run.
OutdirBefore == {{}, {"/w/renamed/id1.fastq.1.gz"}, {"/w/renamed/read.map"}}
Logfile == "read.map"

\* The text of a mapping file: one "barcode<TAB>id" line per pair, the last
\* one with or without its newline.
RECURSIVE MappingText(_, _)
MappingText(pairs, final_newline) ==
    IF Len(pairs) = 0 THEN ""
    ELSE pairs[1][1] \o "\t" \o pairs[1][2]
         \o (IF Len(pairs) > 1 \/ final_newline THEN "\n" ELSE "")
         \o MappingText(Tail(pairs), final_newline)

\* The position of the first c in str, 0 when there is none.
FirstIndex(str, c) ==
    IF \E i \in 1..Len(str) : SubSeq(str, i, i) = c
    THEN CHOOSE i \in 1..Len(str) :
            /\ SubSeq(str, i, i) = c
            /\ \A j \in 1..(i - 1) : SubSeq(str, j, j) # c
    ELSE 0

\* file.readlines(): the lines, each with its newline when it has one.
RECURSIVE Readlines(_)
Readlines(text) ==
    LET k == FirstIndex(text, "\n")
    IN  IF text = "" THEN <<>>
        ELSE IF k = 0 THEN <<text>>
        ELSE <<SubSeq(text, 1, k)>> \o Readlines(SubSeq(text, k + 1, Len(text)))

\* str.split("\t").
RECURSIVE SplitTab(_)
SplitTab(str) ==
    LET k == FirstIndex(str, "\t")
    IN  IF k = 0 THEN <<str>>
        ELSE <<SubSeq(str, 1, k - 1)>> \o SplitTab(SubSeq(str, k + 1, Len(str)))

\* Lines 108-112: the dictionary read from the mapping file.  line[:-1] cuts
\* the last character of the line, newline or not.
RECURSIVE MappingDict(_, _)
MappingDict(lines, dict) ==
    IF Len(lines) = 0 THEN [dict |-> dict, err |-> "none"]
    ELSE LET data == SplitTab(SubSeq(lines[1], 1, Len(lines[1]) - 1)) \* line 111
         IN  IF Len(data) < 2
             THEN [dict |-> dict, err |-> "IndexError"]             \* line 112
             ELSE MappingDict(Tail(lines),
                     [x \in DOMAIN dict \cup {data[1]} |->
                         IF x = data[1] THEN data[2] ELSE dict[x]])

\* Lines 116-139 for one read file: the log line written, the link made and
\* the exception raised.  skip: the barcode was met before (line 124).
LinkResult(readfile, src_suffix, target_suffix, dict, found, present) ==
    LET prefix == ReplaceAll(src_suffix, "", Basename(readfile))    \* line 117
        new_name == Join(Join(Rundir, Outdir),
                         dict[prefix] \o target_suffix)             \* line 127
        nothing == [prefix |-> prefix, log |-> <<>>, link |-> <<>>]
    IN  IF prefix \notin DOMAIN dict                                \* line 120
        THEN [nothing EXCEPT !.prefix = None] @@ [err |-> "NoSampleId"]
        ELSE IF prefix \in found                                    \* line 123
        THEN nothing @@ [err |-> "none"]
        ELSE LET entry == <<readfile \o "\t" \o new_name \o "\n">>  \* line 129
             IN  IF new_name \in present                            \* line 135
                 THEN [prefix |-> prefix, log |-> entry, link |-> <<>>,
                       err |-> "WillNotOverwrite"]
                 ELSE [prefix |-> prefix, log |-> entry,            \* line 139
                       link |-> <<[original |-> readfile, newname |-> new_name]>>,
                       err |-> "none"]

InitRename ==
    /\ IdleMetaFastn
    /\ scan = IdleScan
    /\ bam = IdleBam
    /\ link = IdleLink
    /\ task = IdleTask
    /\ \E pairs \in PairLists, nl \in BOOLEAN, files \in FileLists,
          t \in TargetSuffixes, before \in OutdirBefore :
          script = [pc |-> "read_mapping", pairs |-> pairs, final_newline |-> nl,
                    text |-> MappingText(pairs, nl),
                    readfiles |-> [k \in 1..Len(files) |->
                                     Join(Join(Rundir, Indir), files[k])],
                    src_suffix |-> SrcSuffix, target_suffix |-> t,
                    present |-> before, mapping_dict |-> <<>>, found |-> {},
                    k |-> 0, links |-> <<>>, log |-> <<>>, err |-> "none"]

\* Lines 88-115: the log file must not be there, the target suffix defaults
\* to the source suffix, the mapping file is read, the log file is opened.
ReadMapping ==
    /\ script.pc = "read_mapping"
    /\ IF Join(Join(Rundir, Outdir), Logfile) \in script.present    \* line 98
       THEN script' = [script EXCEPT !.pc = "failed", !.err = "LogfileExists"]
       ELSE LET r == MappingDict(Readlines(script.text), <<>>)
            IN  script' = [script EXCEPT
                   !.target_suffix = IF @ = None THEN script.src_suffix
                                     ELSE @,                        \* line 105
                   !.mapping_dict = r.dict,
                   !.err = r.err,
                   !.present = IF r.err = "none"
                               THEN @ \cup {Join(Join(Rundir, Outdir), Logfile)}
                               ELSE @,                              \* line 115
                   !.pc = IF r.err # "none" THEN "failed"
                          ELSE IF Len(script.readfiles) = 0 THEN "done"
                          ELSE "link"]
    /\ UNCHANGED <<arg, disk, self, pc, err, io, scan, bam, link, task>>

\* One turn of the loop of lines 116-139.
LinkReadfile ==
    /\ script.pc = "link"
    /\ LET r == LinkResult(script.readfiles[script.k + 1], script.src_suffix,
                           script.target_suffix, script.mapping_dict,
                           script.found, script.present)
       IN  script' = [script EXCEPT
                        !.k = @ + 1,
                        !.found = IF r.prefix = None THEN @ ELSE @ \cup {r.prefix},
                        !.log = @ \o r.log,
                        !.links = @ \o r.link,
                        !.present = @ \cup {r.link[j].newname : j \in 1..Len(r.link)},
                        !.err = r.err,
                        !.pc = IF r.err # "none" THEN "failed"
                               ELSE IF script.k + 1 = Len(script.readfiles)
                               THEN "done" ELSE @]
    /\ UNCHANGED <<arg, disk, self, pc, err, io, scan, bam, link, task>>

NextRename == ReadMapping \/ LinkReadfile

SpecRename == InitRename /\ [][NextRename]_vars

\* ------------------------------------------------ what the claims speak of ----

\* The constructor has returned (done) or raised (failed).
Ended == pc \in {"done", "failed"}

\* get_format() has run: the file was opened and the header read.
FormatRan ==
    \/ pc \in {"check_for_mates", "get_suffix", "done"}
    \/ pc = "failed" /\ err \notin {"FileOpen", "ReadError"}

\* check_for_mates() has run.
MatesRan ==
    \/ pc \in {"get_suffix", "done"}
    \/ pc = "failed" /\ err \notin {"FileOpen", "ReadError", "UnknownFormat",
                                    "IndexError", "HeaderMismatch"}

\* Names that follow the convention of the class docstring (lines 105-110).
IsSingleName(p) == EndsWith(p, ".fastq.gz") \/ EndsWith(p, ".fasta.gz")
IsPairedName(p) == EndsWith(p, ".fastq.1.gz") \/ EndsWith(p, ".fasta.1.gz")
NamedSuffix(p) ==
    "." \o DetectFormat(p) \o (IF IsPairedName(p) THEN ".1.gz" ELSE ".gz")
StemOf(p) ==
    SubSeq(Basename(p), 1, Len(Basename(p)) - Len(NamedSuffix(p)))

HeaderChar(fmt) == IF fmt = "fasta" THEN ">" ELSE "@"

\* The file exists and its first line starts with the header character of the
\* format its name gives.
GoodHeader(p) ==
    /\ Exists(disk, p)
    /\ Len(disk[p]) > 0
    /\ Len(disk[p][1]) > 0
    /\ SubSeq(disk[p][1], 1, 1) = HeaderChar(DetectFormat(p))

MatePath == Sibling(arg, "2")
SingletonPath == Sibling(arg, "3")

\* ---------------------------------------------------------------- claims ----

\* C1: a read-1 path ending in .1.gz whose mate <...>.2.gz does not exist
\* fails with a missing-mate error, and no descriptor with fastn2 unset is
\* ever returned for a .1.gz input.
C1_MissingMateError ==
    /\ (Ended /\ IsPairedName(arg) /\ GoodHeader(arg) /\ ~Exists(disk, MatePath))
          => (pc = "failed" /\ err = "MissingMate")
    /\ (pc = "done" /\ EndsWith(arg, ".1.gz")) => self.fastn2 # None

\* C2: with <stem>.fastq.1.gz (valid @ header) and <stem>.fastq.2.gz both
\* present, construction succeeds, keeps fastn1, holds a non-empty header
\* list and sets fastn2 to the .2.gz path.
C2_PairedSucceeds ==
    (Ended /\ EndsWith(arg, ".fastq.1.gz") /\ GoodHeader(arg)
           /\ Exists(disk, MatePath))
       => /\ pc = "done"
          /\ self.fastn1 = arg
          /\ Len(self.head) > 0
          /\ self.fastn2 = MatePath

\* C3: a read-1 path <stem>.<format>.gz gives a single-end descriptor with
\* fastn2 and fastn3 unset, whatever other files exist.
C3_SingleEnd ==
    (Ended /\ IsSingleName(arg) /\ GoodHeader(arg))
       => /\ pc = "done"
          /\ self.fastn2 = None
          /\ self.fastn3 = None

\* C4: for a paired read-1 path, fastn3 is the .3.gz path exactly when that
\* file exists with non-empty decompressed content; an empty singleton file
\* is ignored without an error.
C4_Singleton ==
    (Ended /\ IsPairedName(arg) /\ GoodHeader(arg) /\ Exists(disk, MatePath))
       => /\ pc = "done"
          /\ self.fastn3 \in {None, SingletonPath}
          /\ self.fastn3 = SingletonPath
                <=> (Exists(disk, SingletonPath) /\ Len(disk[SingletonPath]) > 0)

\* C5: the prefix of the descriptor built from <dir>/<stem><suffix1> is the
\* stem, so that prefix + fn1_suffix is the basename of fastn1.
C5_PrefixRoundTrip ==
    (Ended /\ GoodHeader(arg)
           /\ (IsSingleName(arg) \/ (IsPairedName(arg) /\ Exists(disk, MatePath))))
       => /\ pc = "done"
          /\ self.prefix = StemOf(arg)
          /\ self.prefix \o self.fn1_suffix = Basename(self.fastn1)

\* C6: whenever the first character of the first line is not > (fasta name)
\* or not @ (fastq name), the file being empty or its first line being empty
\* included, construction fails with a header-mismatch error.
C6_HeaderMismatch ==
    (Ended /\ Exists(disk, arg) /\ (IsSingleName(arg) \/ IsPairedName(arg))
           /\ ~GoodHeader(arg))
       => (pc = "failed" /\ err = "HeaderMismatch")

\* C7 as claimed: file_format is fasta exactly when the name ends in
\* .fasta.gz or .fasta.1.gz, fastq exactly when it ends in .fastq.gz or
\* .fastq.1.gz, and every other name fails with an unknown-format error.
C7_DottedFormat ==
    FormatRan =>
       /\ self.file_format = "fasta"
             <=> (EndsWith(arg, ".fasta.gz") \/ EndsWith(arg, ".fasta.1.gz"))
       /\ self.file_format = "fastq"
             <=> (EndsWith(arg, ".fastq.gz") \/ EndsWith(arg, ".fastq.1.gz"))
       /\ ~(IsSingleName(arg) \/ IsPairedName(arg))
             => (pc = "failed" /\ err = "UnknownFormat")

\* C7 amended: once the file is open, file_format is fasta exactly when the
\* name ends in fasta.gz or fasta.1.gz and fastq exactly when it ends in
\* fastq.gz or fastq.1.gz, no dot being asked for before the format; a name
\* with none of these endings fails with an unknown-format error, and no
\* other name does.
C7_FormatDetection ==
    FormatRan =>
       /\ self.file_format = "fasta"
             <=> (EndsWith(arg, "fasta.gz") \/ EndsWith(arg, "fasta.1.gz"))
       /\ self.file_format = "fastq"
             <=> (EndsWith(arg, "fastq.gz") \/ EndsWith(arg, "fastq.1.gz"))
       /\ (pc = "failed" /\ err = "UnknownFormat")
             <=> ~(\/ EndsWith(arg, "fasta.gz") \/ EndsWith(arg, "fasta.1.gz")
                   \/ EndsWith(arg, "fastq.gz") \/ EndsWith(arg, "fastq.1.gz"))

\* get_format() accepted a name that has no dot before its format.
C7_Witness ==
    /\ FormatRan
    /\ self.file_format = "fastq"
    /\ ~(IsSingleName(arg) \/ IsPairedName(arg))
    /\ pc = "get_suffix"

\* C8: a read-1 path whose basename does not end with the dotted suffix of
\* its detected format and end type fails with a suffix-mismatch error, and
\* the basename of fastn1 of every descriptor ends with fn1_suffix.
C8_SuffixMismatch ==
    /\ (Ended /\ DetectFormat(arg) # None /\ GoodHeader(arg)
              /\ ~(IsSingleName(arg) \/ IsPairedName(arg)))
          => (pc = "failed" /\ err = "SuffixMismatch")
    /\ pc = "done" => EndsWith(Basename(self.fastn1), self.fn1_suffix)

\* C9: a single-end descriptor has fn1_suffix .<format>.gz and no fn2_suffix
\* or fn3_suffix; a paired one has fn1_suffix .<format>.1.gz, fn2_suffix
\* .<format>.2.gz exactly when fastn2 is set and fn3_suffix .<format>.3.gz
\* exactly when fastn3 is set.
C9_Suffixes ==
    (Ended /\ GoodHeader(arg) /\ (IsSingleName(arg) \/ IsPairedName(arg))
           /\ ~(Exists(disk, SingletonPath) /\ ~Exists(disk, MatePath)))
       => /\ pc = "done"
          /\ self.fn1_suffix = NamedSuffix(arg)
          /\ IsSingleName(arg)
                => (self.fn2_suffix = None /\ self.fn3_suffix = None)
          /\ IsPairedName(arg)
                => /\ self.fn2_suffix =
                         (IF self.fastn2 # None
                          THEN "." \o self.file_format \o ".2.gz" ELSE None)
                   /\ self.fn3_suffix =
                         (IF self.fastn3 # None
                          THEN "." \o self.file_format \o ".3.gz" ELSE None)

\* C10: fastn3 is set only if fastn2 is set, and a .1.gz path whose .3.gz
\* file exists while its .2.gz mate does not fails instead of returning a
\* descriptor.
C10_SingletonNeedsMate ==
    /\ self.fastn3 # None => self.fastn2 # None
    /\ (Ended /\ EndsWith(arg, ".1.gz") /\ Exists(disk, SingletonPath)
              /\ ~Exists(disk, MatePath))
          => pc = "failed"

\* check_for_mates() ran on a .1.gz path with a singleton file and no mate,
\* and the constructor raised.
C10_Witness ==
    /\ MatesRan
    /\ EndsWith(arg, ".1.gz")
    /\ GoodHeader(arg)
    /\ Exists(disk, SingletonPath)
    /\ ~Exists(disk, MatePath)
    /\ pc = "failed"

\* C11: a path that does not exist fails with the file-open exception before
\* any format, mate or suffix step runs, and no descriptor is returned.
C11_FileNotFound ==
    (~Exists(disk, arg) /\ pc # "open")
       => /\ pc = "failed"
          /\ err = "FileOpen"
          /\ self = NewObject(arg)

\* The constructor was called on a missing file and has raised.
C11_Witness ==
    /\ ~Exists(disk, arg)
    /\ IsPairedName(arg)
    /\ pc = "failed"
    /\ err = "FileOpen"

\* C12: for an accepted read-1 path ending in .<format>.1.gz the mate looked
\* up is the path with its final .1.gz replaced by .2.gz and the singleton
\* file the path with its final .1.gz replaced by .3.gz, nothing else of the
\* path altered.
C12_AnchoredLookup ==
    (MatesRan /\ EndsWith(arg, ".1.gz") /\ DetectFormat(arg) # None)
       => /\ err # "AttributeError"
          /\ self.fastn2 = (IF Exists(disk, MatePath) THEN MatePath ELSE None)
          /\ self.fastn3 \in {None, SingletonPath}

\* C13: when construction ends, by returning or by raising, no file handle
\* it opened is still open, and it opened at most one file.
C13_HandlesClosed ==
    /\ io.opened <= 1
    /\ Ended => io.open = 0

\* -------------------------------------------- claims about get_fastns ----

\* get_fastns() has returned or raised.
ScanEnded == scan.pc \in {"done", "failed"}

\* The whole name is <stem>.fast[aq]<end>.gz with a stem of one character or
\* more, <end> being "" (single-end), ".1", ".2" or ".3".
IsReadName(n, end) ==
    \E f \in {".fasta", ".fastq"} :
        /\ EndsWith(n, f \o end \o ".gz")
        /\ Len(n) > Len(f \o end \o ".gz")

IsAnyReadName(n) == \E end \in {"", ".1", ".2", ".3"} : IsReadName(n, end)

\* The entries of the scanned directory that are read files of one end, in
\* listing order, each joined with the directory.
Expected(end) ==
    LET hits == SelectSeq(scan.dir, LAMBDA x : IsReadName(x, end))
    IN  [k \in 1..Len(hits) |-> Join(scan.datadir, hits[k])]

\* C14: for every listing and valid request the result holds, per end, the
\* entries whose whole name matches the pattern, joined with the directory
\* and in listing order: one list for {0} or {1} (no argument counts as {1}),
\* the pair for {1,2}, the triple for {1,2,3}.
C14_BucketsByWholeName ==
    (ScanEnded /\ scan.err # "InvalidEndSpec"
               /\ \E k \in 1..Len(scan.dir) : IsAnyReadName(scan.dir[k]))
       => /\ scan.pc = "done"
          /\ ArgsSet(scan.args) = {0} => scan.result = Expected("")
          /\ ArgsSet(scan.args) = {1} => scan.result = Expected(".1")
          /\ ArgsSet(scan.args) = {1, 2}
                => scan.result = <<Expected(".1"), Expected(".2")>>
          /\ ArgsSet(scan.args) = {1, 2, 3}
                => scan.result = <<Expected(".1"), Expected(".2"), Expected(".3")>>

\* C15: get_fastns fails with the no-input-files error whenever no entry of
\* the directory matches the read-file pattern, the directory being empty or
\* holding only other files.
C15_NoInputFiles ==
    (ScanEnded /\ scan.err # "InvalidEndSpec"
               /\ \A k \in 1..Len(scan.dir) : ~IsAnyReadName(scan.dir[k]))
       => (scan.pc = "failed" /\ scan.err = "NoInputFiles")

\* The directory holds one single-end read file or more, whose stems have no
\* blank in them, and nothing else.
OnlySingleEnd ==
    /\ Len(scan.dir) > 0
    /\ \A k \in 1..Len(scan.dir) :
          /\ IsReadName(scan.dir[k], "")
          /\ \A j \in 1..Len(scan.dir[k]) : NonSpace(SubSeq(scan.dir[k], j, j))

\* C16 as claimed: a directory of N single-end files and no paired files,
\* scanned with request {1}, gives those N paths prefixed with the directory.
C16_SingleEndAsOne ==
    (ScanEnded /\ OnlySingleEnd /\ ArgsSet(scan.args) = {1})
       => (scan.pc = "done" /\ scan.result = Expected(""))

\* C16 amended: such a directory gives those N paths, in listing order and
\* prefixed with the directory, for request {0}; for request {1} (the
\* default) it gives the empty list.
C16_SingleEndAsZero ==
    (ScanEnded /\ OnlySingleEnd)
       => /\ ArgsSet(scan.args) = {0}
                => (scan.pc = "done" /\ scan.result = Expected(""))
          /\ ArgsSet(scan.args) = {1}
                => (scan.pc = "done" /\ scan.result = <<>>)

\* Two single-end files were returned for request {0}.
C16_Witness ==
    /\ scan.pc = "done"
    /\ OnlySingleEnd
    /\ scan.args = <<0>>
    /\ scan.result = <<"d/b.fasta.gz", "d/a.fastq.gz">>

\* The read-1 and read-2 files of the directory differ in number or in stems.
Unpaired ==
    \/ Len(Expected(".1")) # Len(Expected(".2"))
    \/ \E k \in 1..Len(scan.dir) :
          /\ IsReadName(scan.dir[k], ".1")
          /\ \A j \in 1..Len(scan.dir) :
                ~(/\ IsReadName(scan.dir[j], ".2")
                  /\ Sibling(scan.dir[k], "2") = scan.dir[j])

OnlyReadFiles ==
    /\ Len(scan.dir) > 0
    /\ \A k \in 1..Len(scan.dir) :
          /\ IsAnyReadName(scan.dir[k])
          /\ \A j \in 1..Len(scan.dir[k]) : NonSpace(SubSeq(scan.dir[k], j, j))

C18_RequestValidation ==
    scan.pc \notin {"idle", "call"} =>
       /\ (scan.pc = "failed" /\ scan.err = "InvalidEndSpec")
             <=> ~(\/ ArgsSet(scan.args) = {0}
                   \/ ArgsSet(scan.args) = {1}
                   \/ ArgsSet(scan.args) = {1, 2}
                   \/ ArgsSet(scan.args) = {1, 2, 3})
       /\ scan.err = "InvalidEndSpec" => ~scan.listed
       /\ scan.pc = "scan" => ~scan.listed

\* Request {1,3} was rejected with the directory unread.
C18_Witness ==
    /\ scan.pc = "failed"
    /\ scan.err = "InvalidEndSpec"
    /\ scan.args = <<1, 3>>
    /\ Len(scan.dir) > 0
    /\ ~scan.listed

\* ----------------------------------------------- claims about MetaBam ----

\* C19: for every stem s, directory part and the words bam, sam, cram inside
\* the stem included, MetaBam of s.bam, of s.sam and of s.cram all give
\* bamfile = s.bam, samfile = s.sam, cramfile = s.cram: only the trailing
\* extension is substituted, and the given path is kept in its own field.
C19_SameTriple ==
    (bam.pc = "done" /\ bam.ext \in {".bam", ".sam", ".cram"})
       => /\ bam.bamfile = bam.stem \o ".bam"
          /\ bam.samfile = bam.stem \o ".sam"
          /\ bam.cramfile = bam.stem \o ".cram"
          /\ bam.infile \in {bam.bamfile, bam.samfile, bam.cramfile}

\* MetaBam returned for a .sam path with bam in its directory and in its stem.
C19_Witness ==
    /\ bam.pc = "done"
    /\ bam.stem = "bam.d/x.bam"
    /\ bam.ext = ".sam"
    /\ bam.bamfile = "bam.d/x.bam.bam"

\* C20: a path whose extension is none of .bam, .sam, .cram always fails and
\* yields no object; every accepted path takes exactly one of the branches.
C20_UnsupportedExtension ==
    bam.pc \in {"done", "failed"} =>
       /\ bam.pc = "failed"
             <=> ~(\/ EndsWith(bam.infile, ".bam")
                   \/ EndsWith(bam.infile, ".sam")
                   \/ EndsWith(bam.infile, ".cram"))
       /\ bam.pc = "failed"
             => /\ bam.err = "Unsupported"
                /\ bam.bamfile = None /\ bam.samfile = None /\ bam.cramfile = None
       /\ bam.pc = "done"
             => Cardinality({f \in {"bamfile", "samfile", "cramfile"} :
                               bam[f] = bam.infile}) = 1

\* MetaBam raised for a path that ends in bam without the dot.
C20_Witness ==
    /\ bam.pc = "failed"
    /\ bam.err = "Unsupported"
    /\ bam.infile = "d/xbam"

\* ------------------------------------------------ claims about relink ----

\* C21: after relink(inf, outf) returns, outf is a symbolic link to the
\* absolute path of inf, whether outf was absent or was there and replaced,
\* for relative and absolute inf, after any number of calls.
C21_LinkToAbspath ==
    link.pc = "returned" => link.node = LinkTo(Abspath(link.cwd, link.inf))

\* C30: relink never fails silently: when it returns, outf is a symbolic
\* link to inf (as given or made absolute); any failure other than "outf
\* exists" is raised.
C30_NoSilentFailure ==
    link.pc = "returned" =>
       /\ link.node.kind = "link"
       /\ link.node.target \in {link.inf, Abspath(link.cwd, link.inf)}

\* ------------------------------------ claims about the construction order ----

\* The name ends with none of the four endings get_format() knows.
UnrecognisedName(p) ==
    ~(\/ EndsWith(p, "fasta.gz") \/ EndsWith(p, "fasta.1.gz")
      \/ EndsWith(p, "fastq.gz") \/ EndsWith(p, "fastq.1.gz"))

\* One step of the construction: the next step in the fixed order, or failure.
\* Nothing follows a failure or the return.
StepsInOrder ==
    /\ pc = "open" => pc' \in {"get_format", "failed"}
    /\ pc = "get_format" => pc' \in {"check_for_mates", "failed"}
    /\ pc = "check_for_mates" => pc' \in {"get_suffix", "failed"}
    /\ pc = "get_suffix" => pc' \in {"done", "failed"}
    /\ pc \notin {"failed", "done"}
    /\ pc' = "failed" => err' # "none"
    /\ err' \in {"UnknownFormat", "HeaderMismatch", "IndexError"}
          => pc = "get_format"

\* C22: construction runs open-and-read-header, format detection, header
\* validation, mate/singleton discovery, suffix/prefix derivation in that
\* order and stops at the first failure: a readable file with an unrecognised
\* name fails as unknown format whatever its header and mates are, and a
\* header mismatch is raised before any mate or singleton file is looked up
\* or opened.
C22_FixedOrder ==
    /\ [][StepsInOrder]_vars
    /\ [](Ended /\ UnrecognisedName(arg) /\ Exists(disk, arg)
             /\ disk[arg] # Corrupt
          => pc = "failed" /\ err = "UnknownFormat")
    /\ [](err \in {"HeaderMismatch", "IndexError", "UnknownFormat"}
          => /\ pc = "failed"
             /\ self.fastn2 = None /\ self.fastn3 = None
             /\ io.opened = 1)

\* An unrecognised name failed as unknown format although the file starts
\* with a fastq header and its mate and singleton files are there.
C22_Witness ==
    /\ pc = "failed"
    /\ err = "UnknownFormat"
    /\ arg = "d/e.fq.gz"
    /\ disk[arg] = <<"@r", "A">>
    /\ Exists(disk, MatePath)
    /\ Exists(disk, SingletonPath)

\* ------------------------------------ claims about the zstd pipeline ----

\* C23: zstd_compress raises the "Invalid compression_lvl ... must be between
\* 1 - 22" error, and submits no job, for every level outside 1..22; for a
\* level in 1..22 it submits exactly one command per file, with --ultra
\* exactly for the levels 20, 21 and 22.
C23_CompressionLevel ==
    task.pc # "zstd_compress" =>
       IF task.lvl \in 1..22
       THEN /\ task.pc # "failed"
            /\ Len(task.jobs) = Len(task.samples)
            /\ \A k \in 1..Len(task.jobs) :
                  /\ task.jobs[k].infile = InputFile(task.samples[k])
                  /\ task.jobs[k].level = task.lvl
                  /\ task.jobs[k].ultra <=> task.lvl \in {20, 21, 22}
       ELSE /\ task.pc = "failed"
            /\ task.err = "InvalidCompressionLvl"
            /\ task.jobs = <<>>

\* The lines of a list file; a file that was not written has none.
RECURSIVE Lines(_)
Lines(text) ==
    IF text = None \/ text = "" THEN <<>>
    ELSE IF ~Contains(text, "\n") THEN <<text>>
    ELSE LET k == CHOOSE i \in 1..Len(text) :
                     /\ SubSeq(text, i, i) = "\n"
                     /\ \A j \in 1..(i - 1) : SubSeq(text, j, j) # "\n"
         IN  <<SubSeq(text, 1, k - 1)>> \o Lines(SubSeq(text, k + 1, Len(text)))

InList(id, text) == \E k \in 1..Len(Lines(text)) : Lines(text)[k] = id

\* C25: after list_md5_checks every sample id is in exactly one of the
\* successfull list and the failed list, and a sample whose check did not
\* report OK is in the failed list.
C25_EverySampleListed ==
    task.pc = "done" =>
       \A k \in 1..Len(task.samples) :
          LET id == task.samples[k]
          IN  /\ InList(id, task.successfull) # InList(id, task.failed)
              /\ ~Contains(task.checks[k], "OK") => InList(id, task.failed)

\* ------------------------------------- claims about the SRA pipeline ----

\* C24: after the checksum report step, failed_check_sums.txt holds every
\* line of report.txt that is not marked OK, so that README.md says "all
\* downloads passed md5 check sums" only when no download failed its check.
C24_FailedCheckSums ==
    /\ task.pc \in {"update_readme_md5", "done"} =>
          \A k \in 1..Len(task.report) :
             ~Contains(task.report[k], "OK") =>
                \E j \in 1..Len(task.failed_check_sums) :
                   task.failed_check_sums[j] = task.report[k]
    /\ (task.pc = "done" /\ task.readme = "all downloads passed md5 check sums")
          => \A k \in 1..Len(task.report) : Contains(task.report[k], "OK")

\* --------------------------------------------- claims about countlines ----

\* C26: for an input of L lines countlines prints L for type lines, L/2 for
\* fasta and L/4 for fastq, and ends normally for each type; an odd number
\* of lines is refused for fasta and fastq and not for lines.
C26_CountLines ==
    script.pc \in {"done", "failed"} =>
       /\ script.type = "lines"
             => script.pc = "done" /\ script.out = IntToStr(script.lines) \o "\n"
       /\ (script.type = "fasta" /\ script.lines % 2 = 0)
             => /\ script.pc = "done"
                /\ script.out = IntToStr(script.lines \div 2) \o "\n"
       /\ (script.type = "fastq" /\ script.lines % 4 = 0)
             => /\ script.pc = "done"
                /\ script.out = IntToStr(script.lines \div 4) \o "\n"
       /\ (script.type # "lines" /\ script.lines % 2 = 1)
             => script.pc = "failed"

\* ---------------------------------------- claims about rename_and_link ----

\* The sample id the mapping file gives for a barcode: the second column of
\* the last line whose first column is the barcode.
SampleIdOf(pairs, barcode) ==
    pairs[CHOOSE k \in 1..Len(pairs) :
             /\ pairs[k][1] = barcode
             /\ \A j \in (k + 1)..Len(pairs) : pairs[j][1] # barcode][2]

\* The barcode of a read file: its base name without the source suffix.
BarcodeOf(readfile) ==
    LET base == Basename(readfile)
    IN  SubSeq(base, 1, Len(base) - Len(SrcSuffix))

\* C27: every input file <barcode><src_suffix> is linked as <sample id>
\* <target_suffix> in the output directory, the sample id being exactly the
\* second column of the barcode's mapping line, also for a last line with no
\* newline; and the links made and the lines of the log file correspond one
\* to one.
C27_RenameAndLink ==
    /\ script.pc = "done" =>
          \A k \in 1..Len(script.readfiles) :
             \E j \in 1..Len(script.links) :
                /\ script.links[j].original = script.readfiles[k]
                /\ script.links[j].newname =
                      "/w/renamed/"
                         \o SampleIdOf(script.pairs, BarcodeOf(script.readfiles[k]))
                         \o script.target_suffix
    /\ script.pc \in {"done", "failed"} =>
          /\ Len(script.log) = Len(script.links)
          /\ \A j \in 1..Len(script.links) :
                script.log[j] = script.links[j].original \o "\t"
                                   \o script.links[j].newname \o "\n"

\* ------------------------------- claims about the entries get_fastns meets ----

\* The paths get_fastns() returned, whatever the shape of the result.
ReturnedPaths ==
    IF ArgsSet(scan.args) \in {{0}, {1}}
    THEN {scan.result[k] : k \in 1..Len(scan.result)}
    ELSE UNION {{scan.result[i][k] : k \in 1..Len(scan.result[i])} :
                  i \in 1..Len(scan.result)}

\* The ends a request asks for.
RequestedEnds ==
    IF ArgsSet(scan.args) = {0} THEN {""}
    ELSE {".1", ".2", ".3"} \cap
         {"." \o IntToStr(e) : e \in ArgsSet(scan.args)}

\* C28: with a valid request and one matching read file or more in the
\* directory, get_fastns does not fail because of the other entries: they are
\* skipped and the matching entries of the requested ends are returned.
C28_OtherEntriesSkipped ==
    (ScanEnded /\ scan.err # "InvalidEndSpec"
               /\ \E k \in 1..Len(scan.dir) : IsAnyReadName(scan.dir[k]))
       => /\ scan.pc = "done"
          /\ \A k \in 1..Len(scan.dir) :
                (\E end \in RequestedEnds : IsReadName(scan.dir[k], end))
                   => Join(scan.datadir, scan.dir[k]) \in ReturnedPaths

\* C29: every path returned is the directory joined with the complete name of
\* an entry of the directory, never with a part of a name.
C29_CompleteNames ==
    scan.pc = "done" =>
       ReturnedPaths \subseteq
          {Join(scan.datadir, scan.dir[k]) : k \in 1..Len(scan.dir)}

====
